---- MODULE Spec2Model ----
(***************************************************************************)
(* Model of server.js: the POST /api/auth/discord/callback handler and its *)
(* two helpers, exchangeCodeForToken and fetchDiscordUserInfo.             *)
(*                                                                         *)
(* Each request is one invocation of the async handler.  Each of its two    *)
(* outbound calls suspends it twice: at `await fetch(..)` until the call   *)
(* settles (status known, or rejection), and at `await response.json()`    *)
(* until the body is read and parsed (or fails).  Several requests are in  *)
(* flight at once and interleave at those four suspension points.          *)
(***************************************************************************)
EXTENDS FiniteSets, Integers, Sequences, TLC

\* Number of callback requests in flight together.
NumRequests == 2

Requests == 1..NumRequests

VARIABLES
    pc,             \* per request: "idle", "awaitToken", "awaitTokenBody",
                    \*   "awaitProfile", "awaitProfileBody", "done"
    body,           \* per request: req.body as received
    calls,          \* per request: the outbound calls issued, in order
    tokenReply,     \* per request: what the token endpoint answered
    profileReply,   \* per request: what the profile endpoint answered
    tokenResponse,  \* per request: the handler's local `tokenResponse`
    responses       \* per request: the responses sent on `res`, in order

vars == <<pc, body, calls, tokenReply, profileReply, tokenResponse, responses>>

(***************************************************************************)
(* JSON / JavaScript values.  A primitive is [t, s]: its type and what     *)
(* String(v) renders; an object is [t, f] with f its fields.               *)
(***************************************************************************)
Undefined == [t |-> "undefined", s |-> "undefined"]
Null == [t |-> "null", s |-> "null"]
Str(x) == [t |-> "string", s |-> x]
Num(x) == [t |-> "number", s |-> x]
Arr(x) == [t |-> "array", s |-> x]
Obj(f) == [t |-> "object", f |-> f]
EmptyObj == [t |-> "object", f |-> << >>]

\* JavaScript truthiness, as used by `!code`, `!x.access_token` and `a || b`.
Truthy(v) ==
    CASE v.t \in {"undefined", "null"} -> FALSE
      [] v.t = "string" -> v.s # ""
      [] v.t = "number" -> v.s \notin {"0", "NaN"}
      [] OTHER -> TRUE

\* Property read v.k on a non-null value: undefined when the field is absent.
Get(v, k) ==
    IF v.t = "object" /\ k \in DOMAIN v.f THEN v.f[k] ELSE Undefined

\* Template-string / URLSearchParams conversion of a value to a string.
ToStr(v) == IF v.t = "object" THEN "[object Object]" ELSE v.s

\* a || b
Or(a, b) == IF Truthy(a) THEN a ELSE b

\* Message of the TypeError raised by reading property k of null.
NullRead(k) == "Cannot read properties of null (reading '" \o k \o "')"

(***************************************************************************)
(* Inputs: request bodies and provider replies.                            *)
(***************************************************************************)
Bodies ==
    { EmptyObj,
      Obj([code |-> Null]),
      Obj([code |-> Str("")]),
      Obj([code |-> Str("valid123")]),
      Obj([code |-> Str("expired")]),
      Obj([code |-> Num("123")]),
      Obj([code |-> Arr("a")]),
      Obj([code |-> Obj([x |-> Str("y")])]) }

\* What is known of an endpoint's reply: nothing yet; fetch rejected; fetch
\* resolved with a status (body outstanding); then the body failed to arrive,
\* did not parse, or parsed to b.
NoReply == [kind |-> "none"]
NetErr == [kind |-> "neterr"]
Resolved(ok) == [kind |-> "head", ok |-> ok]
BodyFail(ok) == [kind |-> "bodyfail", ok |-> ok]
BadJson(ok) == [kind |-> "badjson", ok |-> ok]
Http(ok, b) == [kind |-> "json", ok |-> ok, body |-> b]

\* How a fetch can settle.
FetchSettlements == { NetErr, Resolved(TRUE), Resolved(FALSE) }

TokA == Str("tok-abc")
TokB == Str("tok-xyz")

\* How the body of the token endpoint's response can turn out, by status.
TokenBodies(ok) ==
    { BodyFail(ok), BadJson(ok) }
    \cup { Http(ok, b) : b \in
             IF ok
             THEN { Null, EmptyObj, Str("ok"),
                    Obj([access_token |-> TokA]),
                    Obj([access_token |-> TokB, token_type |-> Str("Bearer")]),
                    Obj([access_token |-> Str("")]),
                    Obj([access_token |-> Null]) }
             ELSE { Null,
                    Obj([error |-> Str("invalid_grant")]),
                    Obj([error |-> Str("invalid_request"),
                         error_description |->
                            Str("Invalid \"code\" in request.")]) } }

Alice == Obj([id |-> Str("1"), username |-> Str("alice")])

\* How the body of the profile endpoint's response can turn out, by status.
ProfileBodies(ok) ==
    { BodyFail(ok), BadJson(ok) }
    \cup { Http(ok, b) : b \in
             IF ok
             THEN { Null, Alice }
             ELSE { Null, Obj([message |-> Str("401: Unauthorized")]) } }

(***************************************************************************)
(* Outcomes of a stretch of handler code between two suspension points.    *)
(***************************************************************************)
Throw(msg) == [k |-> "throw", msg |-> msg]
Return(v) == [k |-> "return", v |-> v]
Respond(res) == [k |-> "respond", res |-> res]
Await(req) == [k |-> "await", req |-> req]
AwaitBody == [k |-> "body"]

\* res.status(s).json(b); res.json(b) is status 200.
Json(status, b) == [status |-> status, body |-> b]

(***************************************************************************)
(* Outbound requests.                                                      *)
(***************************************************************************)
TOKEN_URL == "https://discord.com/api/oauth2/token"
PROFILE_URL == "https://discord.com/api/v10/users/@me"

\* The form body built by exchangeCodeForToken (URLSearchParams renders each
\* value with String()); the client id, secret and redirect URI come from the
\* process environment and are the same for every request.
TokenRequest(code) ==
    [url |-> TOKEN_URL, method |-> "POST",
     grant_type |-> "authorization_code", code |-> ToStr(code)]

\* The request built by fetchDiscordUserInfo.
ProfileRequest(accessToken) ==
    [url |-> PROFILE_URL, method |-> "GET",
     authorization |-> "Bearer " \o ToStr(accessToken)]

(***************************************************************************)
(* `await fetch(...)`: a network failure rejects it, otherwise it resolves *)
(* with the response (status known, body outstanding).                     *)
(***************************************************************************)
Fetch(settled) ==
    IF settled.kind = "neterr" THEN Throw("fetch failed")
    ELSE AwaitBody

(***************************************************************************)
(* `await response.json()`: a body stream that breaks off or a body that   *)
(* is not JSON makes it throw, otherwise it yields the parsed body.        *)
(***************************************************************************)
ResponseJson(rep) ==
    CASE rep.kind = "bodyfail" -> Throw("terminated")
      [] rep.kind = "badjson" ->
            Throw("Unexpected token '<', \"<html>\" is not valid JSON")
      [] OTHER -> Return(rep.body)

\* exchangeCodeForToken, from `await response.json()` onwards.
exchangeCodeForToken(rep) ==
    LET parsed == ResponseJson(rep) IN
    IF parsed.k = "throw" THEN parsed
    ELSE IF ~rep.ok THEN
        IF parsed.v = Null THEN Throw(NullRead("error_description"))
        ELSE Throw("Token exchange failed: "
                   \o ToStr(Or(Get(parsed.v, "error_description"),
                               Get(parsed.v, "error"))))
    ELSE parsed

\* fetchDiscordUserInfo that returns the body whatever the status.
fetchDiscordUserInfoNoStatus(rep) == ResponseJson(rep)

\* fetchDiscordUserInfo, from `await response.json()` onwards.
fetchDiscordUserInfo(rep) ==
    LET parsed == ResponseJson(rep) IN
    IF parsed.k = "throw" THEN parsed
    ELSE IF ~rep.ok THEN
        IF parsed.v = Null THEN Throw(NullRead("message"))
        ELSE Throw("Failed to fetch user info: "
                   \o ToStr(Get(parsed.v, "message")))
    ELSE parsed

(***************************************************************************)
(* The handler, one operator per stretch between suspension points.        *)
(***************************************************************************)
\* Handler entry with the presence check left out.
HandlerEntryNoCheck(b) ==
    LET code == Get(b, "code") IN
    IF Truthy(code) /\ code.t # "string"
    THEN Throw("code.substring is not a function")
    ELSE Await(TokenRequest(code))

\* From the start of the handler to `await exchangeCodeForToken(code)`.
HandlerEntry(b) ==
    LET code == Get(b, "code") IN
    IF ~Truthy(code)
    THEN Respond(Json(400, [error |-> "Authorization code is required"]))
    ELSE IF code.t # "string"
    THEN Throw("code.substring is not a function")
    ELSE Await(TokenRequest(code))

\* The stretch after the token call with the access_token check left out.
AfterExchangeNoCheck(b, out) ==
    IF out.k = "throw" THEN out
    ELSE IF out.v = Null THEN Throw(NullRead("access_token"))
    ELSE Await(ProfileRequest(Get(out.v, "access_token")))

\* The stretch after the token call that calls the token endpoint again when
\* the exchange failed.
AfterExchangeRetry(b, out) ==
    IF out.k = "throw" THEN Await(TokenRequest(Get(b, "code")))
    ELSE IF out.v = Null THEN Throw(NullRead("access_token"))
    ELSE IF ~Truthy(Get(out.v, "access_token"))
    THEN Respond(Json(400, [error |-> "Failed to get access token"]))
    ELSE Await(ProfileRequest(Get(out.v, "access_token")))

\* From the result of exchangeCodeForToken to `await fetchDiscordUserInfo(..)`.
AfterExchange(b, out) ==
    IF out.k = "throw" THEN out
    ELSE IF out.v = Null THEN Throw(NullRead("access_token"))
    ELSE IF ~Truthy(Get(out.v, "access_token"))
    THEN Respond(Json(400, [error |-> "Failed to get access token"]))
    ELSE Await(ProfileRequest(Get(out.v, "access_token")))

\* The final stretch that spreads the profile into the response.
AfterFetchSpread(tokResp, out) ==
    IF out.k = "throw" THEN out
    ELSE IF out.v = Null THEN Throw(NullRead("username"))
    ELSE Respond(Json(200, [access_token |-> Get(tokResp, "access_token"),
                            id |-> Get(out.v, "id"),
                            username |-> Get(out.v, "username")]))

\* From the result of fetchDiscordUserInfo to the final res.json.
AfterFetch(tokResp, out) ==
    IF out.k = "throw" THEN out
    ELSE IF out.v = Null THEN Throw(NullRead("username"))
    ELSE Respond(Json(200, [access_token |-> Get(tokResp, "access_token"),
                            user |-> out.v]))

\* A handler without the try/catch: a thrown error leaves it unanswered.
NoCatch(out) == out

\* The try/catch around the handler body: a thrown error becomes the 500.
Catch(out) ==
    IF out.k = "throw"
    THEN Respond(Json(500, [error |-> "Internal server error",
                            details |-> out.msg]))
    ELSE out

\* A `tokenResponse` declared at module scope: every invocation reads the
\* value another invocation stored last.
SharedScope(r) ==
    LET others == { q \in Requests \ {r} : tokenResponse[q] # Undefined } IN
    IF others # {} THEN tokenResponse[CHOOSE q \in others : TRUE]
    ELSE tokenResponse[r]

\* `const tokenResponse` is a local of the invocation that assigned it.
HandlerScope(r) == tokenResponse[r]

(***************************************************************************)
(* State machine.                                                          *)
(***************************************************************************)
Init ==
    /\ pc = [r \in Requests |-> "idle"]
    /\ body = [r \in Requests |-> Undefined]
    /\ calls = [r \in Requests |-> << >>]
    /\ tokenReply = [r \in Requests |-> NoReply]
    /\ profileReply = [r \in Requests |-> NoReply]
    /\ tokenResponse = [r \in Requests |-> Undefined]
    /\ responses = [r \in Requests |-> << >>]

\* What an outcome does to the request: send a response and finish, issue an
\* outbound call and suspend on it, suspend on the body of a response, or (a
\* throw nobody caught) finish unanswered.
Settle(r, out, waitAt) ==
    /\ pc' = [pc EXCEPT
                ![r] = IF out.k \in {"await", "body"} THEN waitAt ELSE "done"]
    /\ responses' = [responses EXCEPT
                       ![r] = IF out.k = "respond" THEN Append(@, out.res)
                              ELSE @]
    /\ calls' = [calls EXCEPT
                   ![r] = IF out.k = "await" THEN Append(@, out.req) ELSE @]

\* POST /api/auth/discord/callback arrives with body b.
Callback(r) ==
    /\ pc[r] = "idle"
    /\ \E b \in Bodies :
        /\ body' = [body EXCEPT ![r] = b]
        /\ Settle(r, Catch(HandlerEntry(b)), "awaitToken")
    /\ UNCHANGED <<tokenReply, profileReply, tokenResponse>>

\* The token fetch settles.  A rejection is thrown into the handler's catch;
\* a response moves the helper on to `await response.json()`.
TokenFetchSettled(r) ==
    /\ pc[r] = "awaitToken"
    /\ \E st \in FetchSettlements :
        /\ tokenReply' = [tokenReply EXCEPT ![r] = st]
        /\ Settle(r, Catch(Fetch(st)), "awaitTokenBody")
    /\ UNCHANGED <<body, profileReply, tokenResponse>>

\* The body of the token response is read (or fails); the helper finishes and
\* the handler runs on to a response or to the profile fetch.
TokenBodyRead(r) ==
    /\ pc[r] = "awaitTokenBody"
    /\ \E rep \in TokenBodies(tokenReply[r].ok) :
        LET out == exchangeCodeForToken(rep) IN
        /\ tokenReply' = [tokenReply EXCEPT ![r] = rep]
        /\ tokenResponse' = [tokenResponse EXCEPT
                               ![r] = IF out.k = "return" THEN out.v ELSE @]
        /\ Settle(r, Catch(AfterExchange(body[r], out)), "awaitProfile")
    /\ UNCHANGED <<body, profileReply>>

\* The profile fetch settles.
ProfileFetchSettled(r) ==
    /\ pc[r] = "awaitProfile"
    /\ \E st \in FetchSettlements :
        /\ profileReply' = [profileReply EXCEPT ![r] = st]
        /\ Settle(r, Catch(Fetch(st)), "awaitProfileBody")
    /\ UNCHANGED <<body, tokenReply, tokenResponse>>

\* The body of the profile response is read (or fails); the helper finishes
\* and the handler answers.
ProfileBodyRead(r) ==
    /\ pc[r] = "awaitProfileBody"
    /\ \E rep \in ProfileBodies(profileReply[r].ok) :
        /\ profileReply' = [profileReply EXCEPT ![r] = rep]
        /\ Settle(r, Catch(AfterFetch(HandlerScope(r),
                                      fetchDiscordUserInfo(rep))), "done")
    /\ UNCHANGED <<body, tokenReply, tokenResponse>>

Next ==
    \E r \in Requests :
        \/ Callback(r)
        \/ TokenFetchSettled(r)
        \/ TokenBodyRead(r)
        \/ ProfileFetchSettled(r)
        \/ ProfileBodyRead(r)

Spec == Init /\ [][Next]_vars

(***************************************************************************)
(* Vocabulary of the properties.                                           *)
(***************************************************************************)
Code(r) == Get(body[r], "code")
Arrived(r) == pc[r] # "idle"
IsTokenCall(c) == c.url = TOKEN_URL
IsProfileCall(c) == c.url = PROFILE_URL
ProfileCalled(r) == \E i \in 1..Len(calls[r]) : IsProfileCall(calls[r][i])
TokenCallCount(r) ==
    Cardinality({ i \in 1..Len(calls[r]) : IsTokenCall(calls[r][i]) })

\* The token endpoint answered with a parsable body and this status class.
TokenAnswered(r, ok) == tokenReply[r].kind = "json" /\ tokenReply[r].ok = ok
ProfileAnswered(r, ok) ==
    profileReply[r].kind = "json" /\ profileReply[r].ok = ok

\* The access_token of the token endpoint's answer (undefined if it has none).
IssuedToken(r) ==
    IF tokenReply[r].kind = "json"
    THEN Get(tokenReply[r].body, "access_token") ELSE Undefined

\* The token call succeeded with a non-empty access_token.
TokenObtained(r) == TokenAnswered(r, TRUE) /\ Truthy(IssuedToken(r))

\* The token call is over and did not yield a token: the fetch was rejected,
\* the body did not arrive or parse, the status was a failure, or the body has
\* no usable access_token.
TokenExchangeFailed(r) ==
    \/ tokenReply[r].kind \in {"neterr", "bodyfail", "badjson"}
    \/ TokenAnswered(r, FALSE)
    \/ TokenAnswered(r, TRUE) /\ ~Truthy(IssuedToken(r))

\* The provider's error text of a failed token exchange.
ProviderText(r) ==
    ToStr(Or(Get(tokenReply[r].body, "error_description"),
             Get(tokenReply[r].body, "error")))

\* s contains t, for the strings the handler builds (a literal prefix
\* followed by provider text).
Contains(s, t) ==
    \E p \in {"", "Token exchange failed: ", "Failed to fetch user info: "} :
        s = p \o t

\* The request was answered exactly once, with this response.
Answered(r, res) == pc[r] = "done" /\ responses[r] = <<res>>

CodeRequired == Json(400, [error |-> "Authorization code is required"])

(***************************************************************************)
(* C1: a request whose body has no usable code (absent, null or "") is     *)
(* answered 400 {error: "Authorization code is required"} and issues no    *)
(* outbound call.                                                          *)
(***************************************************************************)
C1_MissingCodeRejected ==
    \A r \in Requests :
        (Arrived(r) /\ Code(r) \in {Undefined, Null, Str("")})
            => Answered(r, CodeRequired) /\ calls[r] = << >>

C1_Witness ==
    \E r \in Requests :
        /\ body[r] = Obj([code |-> Str("")])
        /\ Answered(r, CodeRequired)
        /\ calls[r] = << >>

(***************************************************************************)
(* C2: when the token endpoint answers with a non-success status, the      *)
(* request is answered with a 400-class status whose `error` field         *)
(* contains the provider's error text.                                     *)
(***************************************************************************)
C2_ExchangeFailureIsClientError ==
    \A r \in Requests :
        (TokenAnswered(r, FALSE) /\ tokenReply[r].body # Null
         /\ Truthy(Get(tokenReply[r].body, "error")))
            => /\ pc[r] = "done"
               /\ Len(responses[r]) = 1
               /\ responses[r][1].status \in 400..499
               /\ "error" \in DOMAIN responses[r][1].body
               /\ Contains(responses[r][1].body.error, ProviderText(r))

(***************************************************************************)
(* C3: the profile endpoint is called only after the same request's token  *)
(* call completed with a success status and a non-empty access_token; on   *)
(* any failure of the token exchange it is never called.                   *)
(***************************************************************************)
C3_ProfileOnlyAfterToken ==
    \A r \in Requests :
        /\ (ProfileCalled(r) \/ pc[r] \in {"awaitProfile", "awaitProfileBody"})
              => TokenObtained(r)
        /\ TokenExchangeFailed(r) => ~ProfileCalled(r) /\ pc[r] = "done"

C3_Witness ==
    \E r \in Requests :
        /\ ProfileCalled(r)
        /\ tokenReply[r] = Http(TRUE, Obj([access_token |-> TokA]))

(***************************************************************************)
(* C4: when the token exchange succeeded with a non-empty access_token and *)
(* the profile endpoint answers with a non-success status, the request is  *)
(* answered 500 and the body has no `user` field and does not carry the    *)
(* access token.                                                           *)
(***************************************************************************)
C4_ProfileFailureIsServerError ==
    \A r \in Requests :
        (TokenObtained(r) /\ ProfileAnswered(r, FALSE))
            => /\ pc[r] = "done"
               /\ Len(responses[r]) = 1
               /\ responses[r][1].status = 500
               /\ DOMAIN responses[r][1].body = {"error", "details"}
               /\ ~Contains(responses[r][1].body.details,
                            ToStr(IssuedToken(r)))

C4_Witness ==
    \E r \in Requests :
        /\ TokenObtained(r)
        /\ profileReply[r] =
              Http(FALSE, Obj([message |-> Str("401: Unauthorized")]))
        /\ Answered(r, Json(500,
              [error |-> "Internal server error",
               details |-> "Failed to fetch user info: 401: Unauthorized"]))

(***************************************************************************)
(* C5: when the token endpoint succeeds with access token T and the        *)
(* profile endpoint, called with bearer T, succeeds with profile object P, *)
(* the request is answered 200 with exactly {access_token: T, user: P}.    *)
(***************************************************************************)
C5_SuccessBody ==
    \A r \in Requests :
        (TokenObtained(r) /\ ProfileAnswered(r, TRUE)
         /\ profileReply[r].body.t = "object")
            => /\ Answered(r, Json(200, [access_token |-> IssuedToken(r),
                                         user |-> profileReply[r].body]))
               /\ calls[r][2] = [url |-> PROFILE_URL, method |-> "GET",
                                 authorization |->
                                    "Bearer " \o IssuedToken(r).s]

C5_Witness ==
    \E r \in Requests :
        /\ body[r] = Obj([code |-> Str("valid123")])
        /\ tokenReply[r] = Http(TRUE, Obj([access_token |-> TokA]))
        /\ profileReply[r] = Http(TRUE, Alice)
        /\ Answered(r, Json(200, [access_token |-> Str("tok-abc"),
                                  user |-> Alice]))

NoAccessToken == Json(400, [error |-> "Failed to get access token"])

(***************************************************************************)
(* C6: whenever the token endpoint answers with a success status and a     *)
(* parsed body without a usable access_token (absent, null or empty), the  *)
(* request is answered 400 with a body holding only `error`, and the       *)
(* profile endpoint is not called.                                         *)
(***************************************************************************)
C6_NoTokenIsClientError ==
    \A r \in Requests :
        (TokenAnswered(r, TRUE) /\ ~Truthy(IssuedToken(r)))
            => /\ pc[r] = "done"
               /\ Len(responses[r]) = 1
               /\ responses[r][1].status = 400
               /\ DOMAIN responses[r][1].body = {"error"}
               /\ ~ProfileCalled(r)

(***************************************************************************)
(* What the handler does in the cases of C6: a body of JSON null makes the *)
(* read of access_token throw, which the catch answers with the 500; every *)
(* other body without a usable token gets the 400.  Neither calls the      *)
(* profile endpoint.                                                       *)
(***************************************************************************)
NoTokenOutcome ==
    \A r \in Requests :
        (TokenAnswered(r, TRUE) /\ ~Truthy(IssuedToken(r)))
            => /\ ~ProfileCalled(r)
               /\ IF tokenReply[r].body # Null
                  THEN Answered(r, NoAccessToken)
                  ELSE Answered(r, Json(500,
                          [error |-> "Internal server error",
                           details |-> NullRead("access_token")]))

NoTokenWitness ==
    \E r \in Requests :
        /\ tokenReply[r] = Http(TRUE, Obj([access_token |-> Str("")]))
        /\ Answered(r, NoAccessToken)
        /\ Len(calls[r]) = 1

(***************************************************************************)
(* C7: the outbound calls of a request are, over its whole lifetime, none, *)
(* [token] or [token, profile]: each endpoint is called at most once, the  *)
(* profile call is issued only once the token call's response has been     *)
(* received, and nothing is called again after a failure.                  *)
(***************************************************************************)
C7_CallSequence ==
    \A r \in Requests :
        /\ Len(calls[r]) <= 2
        /\ Len(calls[r]) >= 1 => IsTokenCall(calls[r][1])
        /\ Len(calls[r]) = 2
              => IsProfileCall(calls[r][2]) /\ tokenReply[r].kind = "json"
        /\ pc[r] = "awaitToken" => Len(calls[r]) = 1 /\ tokenReply[r] = NoReply
        /\ pc[r] = "awaitTokenBody"
              => Len(calls[r]) = 1 /\ tokenReply[r].kind = "head"
        /\ pc[r] = "awaitProfile"
              => Len(calls[r]) = 2 /\ profileReply[r] = NoReply
        /\ pc[r] = "awaitProfileBody"
              => Len(calls[r]) = 2 /\ profileReply[r].kind = "head"

C7_Witness ==
    \E r \in Requests :
        /\ pc[r] = "done"
        /\ Len(calls[r]) = 2
        /\ IsTokenCall(calls[r][1])
        /\ IsProfileCall(calls[r][2])
        /\ profileReply[r] = NetErr

(***************************************************************************)
(* C8: whatever the outcome of its outbound calls, a request whose issued  *)
(* calls have completed has been sent exactly one response, of one of the  *)
(* shapes 200 {access_token, user}, 400 {error}, 500 {error: "Internal     *)
(* server error", details}; never two responses, and an unanswered request *)
(* is one that has not arrived or is waiting for a call it issued.         *)
(***************************************************************************)
DefinedShape(res) ==
    \/ res.status = 200 /\ DOMAIN res.body = {"access_token", "user"}
    \/ res.status = 400 /\ DOMAIN res.body = {"error"}
    \/ /\ res.status = 500
       /\ DOMAIN res.body = {"error", "details"}
       /\ res.body.error = "Internal server error"

C8_ExactlyOneResponse ==
    \A r \in Requests :
        /\ Len(responses[r]) <= 1
        /\ pc[r] = "done"
              => Len(responses[r]) = 1 /\ DefinedShape(responses[r][1])
        /\ pc[r] # "done"
              => /\ responses[r] = << >>
                 /\ pc[r] \in {"idle", "awaitToken", "awaitTokenBody",
                              "awaitProfile", "awaitProfileBody"}
                 /\ pc[r] = "awaitToken" => ENABLED TokenFetchSettled(r)
                 /\ pc[r] = "awaitTokenBody" => ENABLED TokenBodyRead(r)
                 /\ pc[r] = "awaitProfile" => ENABLED ProfileFetchSettled(r)
                 /\ pc[r] = "awaitProfileBody" => ENABLED ProfileBodyRead(r)

\* The proviso of C8 as fairness: every issued call eventually settles and its
\* body is eventually read (or fails), which resumes the handler.
FairSpec ==
    /\ Spec
    /\ \A r \in Requests :
          /\ WF_vars(TokenFetchSettled(r)) /\ WF_vars(TokenBodyRead(r))
          /\ WF_vars(ProfileFetchSettled(r)) /\ WF_vars(ProfileBodyRead(r))

\* Under FairSpec every request that arrived is eventually answered, once.
EventuallyAnswered ==
    \A r \in Requests :
        Arrived(r) ~> (pc[r] = "done" /\ Len(responses[r]) = 1)

C8_Witness ==
    \E r \in Requests :
        /\ tokenReply[r].kind = "json"
        /\ profileReply[r] = BadJson(TRUE)
        /\ Answered(r, Json(500,
              [error |-> "Internal server error",
               details |->
                  "Unexpected token '<', \"<html>\" is not valid JSON"]))

(***************************************************************************)
(* C9: with several requests in flight and interleaved at the awaits, the  *)
(* bearer of a request's profile call and the access_token and user of its *)
(* response come from that request's own token and profile replies; equal  *)
(* inputs give equal outcomes whatever the other requests did; and a step  *)
(* of one request leaves every other request's state and outcome as it     *)
(* was.                                                                    *)
(***************************************************************************)
Local(r) ==
    <<pc[r], body[r], calls[r], tokenReply[r], profileReply[r],
      tokenResponse[r], responses[r]>>

OwnData(r) ==
    /\ Len(calls[r]) = 2
          => calls[r][2].authorization = "Bearer " \o ToStr(IssuedToken(r))
    /\ (Len(responses[r]) = 1 /\ responses[r][1].status = 200)
          => /\ responses[r][1].body.access_token = IssuedToken(r)
             /\ responses[r][1].body.user = profileReply[r].body

SameInputsSameOutcome ==
    \A r, q \in Requests :
        (/\ pc[r] = "done" /\ pc[q] = "done"
         /\ body[r] = body[q]
         /\ tokenReply[r] = tokenReply[q]
         /\ profileReply[r] = profileReply[q])
            => responses[r] = responses[q] /\ calls[r] = calls[q]

OthersUntouched ==
    \A r, q \in Requests :
        (r # q /\ Local(r)' # Local(r)) => Local(q)' = Local(q)

C9_RequestsIndependent ==
    /\ [](\A r \in Requests : OwnData(r))
    /\ []SameInputsSameOutcome
    /\ [][OthersUntouched]_vars

C9_Witness ==
    \E r, q \in Requests :
        /\ r # q
        /\ IssuedToken(r) = TokA
        /\ IssuedToken(q) = TokB
        /\ profileReply[r] = Http(TRUE, Alice)
        /\ Answered(r, Json(200, [access_token |-> TokA, user |-> Alice]))
        /\ pc[q] = "awaitProfileBody"
        /\ profileReply[q] = Resolved(FALSE)
        /\ responses[q] = << >>

(***************************************************************************)
(* C10: a code that is present and non-empty, whatever its format or JSON  *)
(* type, is not rejected by the handler: the token endpoint is called      *)
(* exactly once, with that code.                                           *)
(***************************************************************************)
C10_PresenceOnly ==
    \A r \in Requests :
        (Arrived(r) /\ Code(r) \notin {Undefined, Null, Str("")})
            => /\ TokenCallCount(r) = 1
               /\ calls[r][1] = TokenRequest(Code(r))

====
